---- MODULE Spec2Model ----
(***************************************************************************)
(* Automated YouTube Studio: the page component (scene store, render       *)
(* pipeline, publish form, publish workflow) and the upload route.         *)
(*                                                                         *)
(* Strings are sequences of tokens.  A token is a one-character string     *)
(* (" ", ",", "a") or a literal chunk of source text ("Hook",              *)
(* " (extended)") that contains no separator and no leading or trailing    *)
(* blank of interest; the empty string is << >>.  Concatenation is \o.     *)
(***************************************************************************)
EXTENDS Integers, Sequences, FiniteSets, TLC

(***************************************************************************)
(* Bounds of the model                                                     *)
(***************************************************************************)
\* ids 1..MaxId are the outcomes of makeId the model draws, in order
MaxId == 13
\* number of scene-store operations explored by SpecStore
MaxOps == 2
\* publish attempts that may be awaiting encode/fetch at the same time
MaxUploads == 1
\* progress events one render emits at most
MaxProgress == 2
\* characters of a raw tags input
MaxRawLen == 2

(***************************************************************************)
(* Program constants                                                       *)
(***************************************************************************)
minDuration == 4
maxDuration == 20
SeedDuration == 6
CompositionWidth == 1280
CompositionHeight == 720
CompositionFps == 30
MAX_UPLOAD_SIZE_MB == 256
BytesPerMb == 1024 * 1024
HttpOk == 200
HttpBadRequest == 400

\* an optional value (T | null, T | undefined) is << >> when absent and
\* << v >> when present
null == << >>
Some(v) == << v >>

\* gradientOptions, by name
gradientOptions ==
  << "Sky Surge", "Sunset Glow", "Aurora Mist", "Forest Haze", "Neon Bloom", "Deep Space" >>

defaultTopic == << "Automating YouTube Videos with AI Assistants" >>

(***************************************************************************)
(* String helpers (String.prototype.trim, toLowerCase, split)              *)
(***************************************************************************)
IsSpace(c) == c = " "

RECURSIVE TrimStart(_)
TrimStart(s) ==
  IF s # << >> /\ IsSpace(Head(s)) THEN TrimStart(Tail(s)) ELSE s

RECURSIVE TrimEnd(_)
TrimEnd(s) ==
  IF s # << >> /\ IsSpace(s[Len(s)]) THEN TrimEnd(SubSeq(s, 1, Len(s) - 1)) ELSE s

Trim(s) == TrimEnd(TrimStart(s))

LowerChar(c) ==
  CASE c = "T" -> "t"
    [] c = "A" -> "a"
    [] c = "Automating YouTube Videos with AI Assistants"
         -> "automating youtube videos with ai assistants"
    [] OTHER -> c

ToLowerCase(s) == [i \in 1..Len(s) |-> LowerChar(s[i])]

\* s.split(sep): the pieces between the separators; "".split(",") is [""]
RECURSIVE Split(_, _)
Split(s, sep) ==
  IF \A i \in 1..Len(s) : s[i] # sep
    THEN << s >>
    ELSE LET k == CHOOSE i \in 1..Len(s) :
                    s[i] = sep /\ \A j \in 1..(i - 1) : s[j] # sep
         IN  << SubSeq(s, 1, k - 1) >> \o Split(SubSeq(s, k + 1, Len(s)), sep)

\* Boolean(x) for a string: the empty string is falsy
Truthy(s) == s # << >>

\* pieces.filter(Boolean)
RECURSIVE FilterBoolean(_)
FilterBoolean(pieces) ==
  IF pieces = << >> THEN << >>
  ELSE IF Head(pieces) # << >>
         THEN << Head(pieces) >> \o FilterBoolean(Tail(pieces))
         ELSE FilterBoolean(Tail(pieces))

MapTrim(pieces) == [i \in 1..Len(pieces) |-> Trim(pieces[i])]

(***************************************************************************)
(* Scenes                                                                  *)
(***************************************************************************)
defaultDescription(t) ==
  << "Explore how to build an automated pipeline for YouTube videos around \"" >>
    \o t
    \o << "\". This guide shows how to script, assemble, and ship production-ready content without manual editing." >>

\* mutant: a scene is created at the minimum duration
createScene_MinDuration(id, title, narration, emphasis, gradient) ==
  [ id        |-> id,
    title     |-> title,
    narration |-> narration,
    duration  |-> minDuration,
    gradient  |-> gradient,
    emphasis  |-> emphasis ]

createScene(id, title, narration, emphasis, gradient) ==
  [ id        |-> id,
    title     |-> title,
    narration |-> narration,
    duration  |-> SeedDuration,
    gradient  |-> gradient,
    emphasis  |-> emphasis ]

\* the six narrative roles, in order; draws[i] is the palette entry
\* Math.random picks for scene i, firstId + i - 1 the id makeId returns for it
buildScenesFromTopic(t, firstId, draws) ==
  LET focus == IF Trim(t) # << >> THEN Trim(t) ELSE defaultTopic
  IN << createScene(firstId, << "Hook" >>,
          << "Why spend days editing when " >> \o focus
            \o << " lets you storyboard, narrate, and publish while you sleep?" >>,
          << "Promise: by the end you'll have a reusable autopilot." >>,
          gradientOptions[draws[1]]),
        createScene(firstId + 1, << "System Overview" >>,
          << "We break down the automated studio into three loops: ideation, production, and publishing." >>,
          << "Visualize the pipeline as an assembly line from prompt to publish." >>,
          gradientOptions[draws[2]]),
        createScene(firstId + 2, << "Asset Generation" >>,
          << "Scripts, narration, and visuals are produced through composable agents." >>,
          << "Tip: reuse templates per content pillar to stay on brand." >>,
          gradientOptions[draws[3]]),
        createScene(firstId + 3, << "Video Assembly" >>,
          << "Slides and audio are merged with FFmpeg on-demand, yielding high quality MP4 files ready for upload." >>,
          << "Result: deterministic renders with predictable timing." >>,
          gradientOptions[draws[4]]),
        createScene(firstId + 4, << "Deployment" >>,
          << "Finally the pipeline pushes metadata, thumbnails, and the compiled video to YouTube through their API." >>,
          << "Close with a call-to-action that matches your funnel." >>,
          gradientOptions[draws[5]]),
        createScene(firstId + 5, << "Call To Action" >>,
          << "Start automating your " >> \o ToLowerCase(focus)
            \o << " today and reinvest saved hours into strategy and community." >>,
          << "Subscribe for more build logs and automation recipes." >>,
          gradientOptions[draws[6]]) >>

NumSeedScenes == 6

\* outcomes of the six Math.random draws of one seeding that the model explores
SeedDraws == { << 1, 1, 1, 1, 1, 1 >>, << 1, 2, 3, 4, 5, 6 >> }

(***************************************************************************)
(* Publish form                                                            *)
(***************************************************************************)
Public == << "public" >>
Unlisted == << "unlisted" >>
Private == << "private" >>
PrivacyStatuses == { Public, Unlisted, Private }

initialYoutubeForm(t) ==
  [ title         |-> t,
    description   |-> defaultDescription(t),
    tags          |-> << << "automation" >>, << "youtube" >>, << "ai workflow" >> >>,
    privacyStatus |-> Private,
    clientId      |-> << >>,
    clientSecret  |-> << >>,
    refreshToken  |-> << >>,
    status        |-> << >> ]

\* mutant: the description is not required
isYoutubeFormValid_NoDescription(form, hasVideo) ==
  /\ hasVideo
  /\ Truthy(form.clientId)
  /\ Truthy(form.clientSecret)
  /\ Truthy(form.refreshToken)
  /\ Truthy(form.title)

isYoutubeFormValid(form, hasVideo) ==
  /\ hasVideo
  /\ Truthy(form.clientId)
  /\ Truthy(form.clientSecret)
  /\ Truthy(form.refreshToken)
  /\ Truthy(form.title)
  /\ Truthy(form.description)

(***************************************************************************)
(* State                                                                   *)
(***************************************************************************)
VARIABLES
  topic,            \* useState(defaultTopic)
  scenes,           \* useState(() => buildScenesFromTopic(defaultTopic))
  backgroundAudio,  \* useState<File | null>(null)
  videoUrl,         \* useState<string | null>(null)
  videoBlob,        \* useState<Blob | null>(null)
  youtubeForm,      \* useState(() => initialYoutubeForm(defaultTopic))
  isUploading,      \* useState(false)
  uploadResult,     \* useState<{success, message, url?} | null>(null)
  engine,           \* useVideoComposer: Unloaded, Loading, Ready, Rendering, Failed
  progress,         \* useVideoComposer: progress events of the current render
  renders,          \* compositions the engine is rendering (generate() pending)
  uploads,          \* submitYoutubeUpload calls suspended at an await, by slot
  notice,           \* the last alert() shown and the error logged with it
  nextId,           \* the next outcome of makeId
  ops,              \* scene-store operations performed (SpecStore's budget)
  served            \* route.ts: the last request POST handled and its response

vars ==
  << topic, scenes, backgroundAudio, videoUrl, videoBlob, youtubeForm, isUploading,
     uploadResult, engine, progress, renders, uploads, notice, nextId, ops, served >>

\* the state of the page component
clientVars ==
  << topic, scenes, backgroundAudio, videoUrl, videoBlob, youtubeForm, isUploading,
     uploadResult, engine, progress, renders, uploads, notice, nextId >>

pageVars == << topic, backgroundAudio >>
videoVars == << videoUrl, videoBlob >>
publishVars == << isUploading, uploadResult, uploads >>
engineVars == << engine, progress, renders >>

NoNotice == [ alert |-> "", error |-> "" ]

\* a slot no suspended call occupies
Idle == [ pc |-> "idle" ]

Range(seq) == { seq[i] : i \in 1..Len(seq) }
SceneIds == { scenes[i].id : i \in 1..Len(scenes) }

Init ==
  /\ topic = defaultTopic
  /\ \E draws \in SeedDraws : scenes = buildScenesFromTopic(defaultTopic, 1, draws)
  /\ backgroundAudio = null
  /\ videoUrl = null
  /\ videoBlob = null
  /\ youtubeForm = initialYoutubeForm(defaultTopic)
  /\ isUploading = FALSE
  /\ uploadResult = null
  /\ engine = "Unloaded"
  /\ progress = 0
  /\ renders = << >>
  /\ uploads = [ k \in 1..MaxUploads |-> Idle ]
  /\ notice = NoNotice
  /\ nextId = NumSeedScenes + 1
  /\ ops = 0
  /\ served = null

(***************************************************************************)
(* Scene store                                                             *)
(***************************************************************************)
\* onChange of the topic input
setTopic(value) ==
  /\ topic' = value
  /\ UNCHANGED << scenes, backgroundAudio, videoVars, youtubeForm, publishVars,
                  engineVars, notice, nextId >>

\* mutant: the store is reseeded but the form is kept
regenerateScenes_KeepsForm(draws) ==
  /\ nextId + NumSeedScenes - 1 <= MaxId
  /\ scenes' = buildScenesFromTopic(topic, nextId, draws)
  /\ nextId' = nextId + NumSeedScenes
  /\ UNCHANGED << pageVars, videoVars, youtubeForm, publishVars, engineVars, notice >>

regenerateScenes(draws) ==
  /\ nextId + NumSeedScenes - 1 <= MaxId
  /\ scenes' = buildScenesFromTopic(topic, nextId, draws)
  /\ nextId' = nextId + NumSeedScenes
  /\ youtubeForm' = initialYoutubeForm(topic)
  /\ UNCHANGED << pageVars, videoVars, publishVars, engineVars, notice >>

\* { ...scene, ...updates }
Merge(scene, updates) ==
  [ f \in (DOMAIN scene) \cup (DOMAIN updates) |->
      IF f \in DOMAIN updates THEN updates[f] ELSE scene[f] ]

\* mutant: the patch is merged into every scene, whatever its id
updateSceneMap_EveryScene(prev, id, updates) ==
  [ i \in 1..Len(prev) |-> Merge(prev[i], updates) ]

updateSceneMap(prev, id, updates) ==
  [ i \in 1..Len(prev) |-> IF prev[i].id = id THEN Merge(prev[i], updates) ELSE prev[i] ]

\* mutant: the patch is assigned into the scene object itself, which the
\* compositions built from the store share
updateScene_InPlace(id, updates) ==
  /\ UNCHANGED << pageVars, videoVars, youtubeForm, publishVars, engine, progress,
                  notice, nextId >>
  /\ scenes' = updateSceneMap(scenes, id, updates)
  /\ renders' = [ i \in 1..Len(renders) |->
                   [ renders[i] EXCEPT !.scenes = updateSceneMap(@, id, updates) ] ]

updateScene(id, updates) ==
  /\ UNCHANGED << pageVars, videoVars, youtubeForm, publishVars, engineVars, notice, nextId >>
  /\ scenes' = updateSceneMap(scenes, id, updates)

handleAddScene(draw) ==
  /\ nextId <= MaxId
  /\ scenes' = Append(scenes,
       createScene(nextId, << "New Scene" >>,
         << "Refine this narration to keep the narrative tight and insightful." >>,
         << "Adjust duration and visuals to fit the rhythm." >>,
         gradientOptions[draw]))
  /\ nextId' = nextId + 1
  /\ UNCHANGED << pageVars, videoVars, youtubeForm, publishVars, engineVars, notice >>

duplicateAppend(prev, scene, id) ==
  Append(prev, [ scene EXCEPT !.id = id, !.title = scene.title \o << " (extended)" >> ])

handleDuplicateScene(scene) ==
  /\ nextId <= MaxId
  /\ scenes' = duplicateAppend(scenes, scene, nextId)
  /\ nextId' = nextId + 1
  /\ UNCHANGED << pageVars, videoVars, youtubeForm, publishVars, engineVars, notice >>

removeFilter(prev, id) == SelectSeq(prev, LAMBDA scene : scene.id # id)

handleRemoveScene(id) ==
  /\ scenes' = removeFilter(scenes, id)
  /\ UNCHANGED << pageVars, videoVars, youtubeForm, publishVars, engineVars, notice, nextId >>

handleAudioUpload(files) ==
  /\ backgroundAudio' = IF files # << >> THEN Some(Head(files)) ELSE backgroundAudio
  /\ UNCHANGED << topic, scenes, videoVars, youtubeForm, publishVars, engineVars,
                  notice, nextId >>

\* mutant: the duration is summed as stored
sceneRuntime_NoFloor(scene) == scene.duration

\* Math.max(scene.duration, minDuration)
sceneRuntime(scene) ==
  IF scene.duration > minDuration THEN scene.duration ELSE minDuration

\* scenes.reduce((sum, scene) => sum + Math.max(scene.duration, minDuration), 0)
RECURSIVE totalRuntimeOf(_)
totalRuntimeOf(s) ==
  IF s = << >> THEN 0
  ELSE sceneRuntime(Head(s)) + totalRuntimeOf(Tail(s))

totalRuntime == totalRuntimeOf(scenes)

(***************************************************************************)
(* Render engine (useVideoComposer) and beginGeneration                    *)
(***************************************************************************)
isReady == engine \in { "Ready", "Rendering" }
isRunning == engine = "Rendering"

\* disabled={isRunning || !isReady} on the render button
renderDisabled == isRunning \/ ~isReady

\* load(): Unloaded/Failed -> Loading; a no-op while Loading, Ready or Rendering
load ==
  /\ engine' = IF engine \in { "Unloaded", "Failed" } THEN "Loading" ELSE engine
  /\ UNCHANGED << pageVars, scenes, videoVars, youtubeForm, publishVars, progress,
                  renders, notice, nextId >>

loadDone ==
  /\ engine = "Loading"
  /\ engine' = "Ready"
  /\ UNCHANGED << pageVars, scenes, videoVars, youtubeForm, publishVars, progress,
                  renders, notice, nextId >>

\* load() rejects; the page swallows the rejection
loadFail ==
  /\ engine = "Loading"
  /\ engine' = "Failed"
  /\ UNCHANGED << pageVars, scenes, videoVars, youtubeForm, publishVars, progress,
                  renders, notice, nextId >>

\* mutant: generate(request) is accepted while a render is running
generateAccepts_WhileRendering == engine \in { "Ready", "Rendering" }

\* generate(request) is accepted from Ready only
generateAccepts == engine = "Ready"

generateRejection == IF engine = "Rendering" THEN "EngineBusy" ELSE "EngineNotReady"

RenderFailedAlert == "Video rendering failed. Check console for details."

buildComposition ==
  [ scenes          |-> scenes,
    width           |-> CompositionWidth,
    height          |-> CompositionHeight,
    fps             |-> CompositionFps,
    backgroundAudio |-> backgroundAudio ]

\* mutant: the prior result is not cleared when a render starts
beginGeneration_KeepsResult ==
  /\ UNCHANGED videoVars
  /\ IF generateAccepts
       THEN /\ renders' = Append(renders, buildComposition)
            /\ engine' = "Rendering"
            /\ progress' = 0
            /\ UNCHANGED notice
       ELSE /\ notice' = [ alert |-> RenderFailedAlert, error |-> generateRejection ]
            /\ UNCHANGED << engine, progress, renders >>
  /\ UNCHANGED << pageVars, scenes, youtubeForm, publishVars, nextId >>

beginGeneration ==
  /\ videoUrl' = null
  /\ videoBlob' = null
  /\ IF generateAccepts
       THEN /\ renders' = Append(renders, buildComposition)
            /\ engine' = "Rendering"
            /\ progress' = 0
            /\ UNCHANGED notice
       ELSE /\ notice' = [ alert |-> RenderFailedAlert, error |-> generateRejection ]
            /\ UNCHANGED << engine, progress, renders >>
  /\ UNCHANGED << pageVars, scenes, youtubeForm, publishVars, nextId >>

\* the engine reports progress of the running render
renderProgress ==
  /\ renders # << >>
  /\ progress < MaxProgress
  /\ progress' = progress + 1
  /\ UNCHANGED << pageVars, scenes, videoVars, youtubeForm, publishVars, engine,
                  renders, notice, nextId >>

RemoveAt(seq, i) == SubSeq(seq, 1, i - 1) \o SubSeq(seq, i + 1, Len(seq))

\* what the engine may resolve generate() with
RenderResults ==
  { [ url |-> << "blob:1" >>, blob |-> << 77 >> ],
    [ url |-> << "blob:2" >>, blob |-> << 77, 80 >> ],
    [ url |-> << "blob:3" >>, blob |-> << >> ] }

\* mutant: only the playable reference is stored
renderDone_UrlOnly(i, result) ==
  /\ i \in 1..Len(renders)
  /\ renders' = RemoveAt(renders, i)
  /\ engine' = "Ready"
  /\ videoUrl' = Some(result.url)
  /\ UNCHANGED << pageVars, scenes, videoBlob, youtubeForm, publishVars, progress, notice,
                  nextId >>

\* generate() resolves: setVideoUrl(result.url); setVideoBlob(result.blob)
renderDone(i, result) ==
  /\ i \in 1..Len(renders)
  /\ renders' = RemoveAt(renders, i)
  /\ engine' = "Ready"
  /\ videoUrl' = Some(result.url)
  /\ videoBlob' = Some(result.blob)
  /\ UNCHANGED << pageVars, scenes, youtubeForm, publishVars, progress, notice, nextId >>

\* generate() rejects with RenderFailed: console.error + alert
renderFail(i) ==
  /\ i \in 1..Len(renders)
  /\ renders' = RemoveAt(renders, i)
  /\ engine' = "Ready"
  /\ notice' = [ alert |-> RenderFailedAlert, error |-> "RenderFailed" ]
  /\ UNCHANGED << pageVars, scenes, videoVars, youtubeForm, publishVars, progress, nextId >>

(***************************************************************************)
(* Publish form                                                            *)
(***************************************************************************)
FormKeys ==
  { "title", "description", "tags", "privacyStatus", "clientId", "clientSecret",
    "refreshToken", "status" }

\* mutant: empty pieces are kept
parseTags_KeepsEmpty(value) == MapTrim(Split(value, ","))

\* value.split(",").map((tag) => tag.trim()).filter(Boolean)
parseTags(value) == FilterBoolean(MapTrim(Split(value, ",")))

youtubeChange(prev, key, value) ==
  IF key = "tags"
    THEN [ prev EXCEPT !.tags = parseTags(value) ]
  ELSE IF key = "privacyStatus" /\ (value = Public \/ value = Private \/ value = Unlisted)
    THEN [ prev EXCEPT !.privacyStatus = value ]
  ELSE [ prev EXCEPT ![key] = value ]

handleYoutubeChange(key, value) ==
  /\ youtubeForm' = youtubeChange(youtubeForm, key, value)
  /\ UNCHANGED << pageVars, scenes, videoVars, publishVars, engineVars, notice, nextId >>

\* disabled={!isYoutubeFormValid(youtubeForm, !!videoBlob) || isUploading}
submitDisabled == ~isYoutubeFormValid(youtubeForm, videoBlob # null) \/ isUploading

(***************************************************************************)
(* Transport encoding (blobToBase64) and decoding (Buffer.from)            *)
(***************************************************************************)
Base64Alphabet ==
  << "A", "B", "C", "D", "E", "F", "G", "H", "I", "J", "K", "L", "M", "N", "O", "P",
     "Q", "R", "S", "T", "U", "V", "W", "X", "Y", "Z", "a", "b", "c", "d", "e", "f",
     "g", "h", "i", "j", "k", "l", "m", "n", "o", "p", "q", "r", "s", "t", "u", "v",
     "w", "x", "y", "z", "0", "1", "2", "3", "4", "5", "6", "7", "8", "9", "+", "/" >>

\* a blob is its sequence of bytes
RECURSIVE Base64(_)
Base64(bytes) ==
  IF bytes = << >> THEN << >>
  ELSE LET n  == Len(bytes)
           b1 == bytes[1]
           b2 == IF n >= 2 THEN bytes[2] ELSE 0
           b3 == IF n >= 3 THEN bytes[3] ELSE 0
       IN  << Base64Alphabet[(b1 \div 4) + 1],
              Base64Alphabet[((b1 % 4) * 16 + (b2 \div 16)) + 1],
              IF n >= 2 THEN Base64Alphabet[((b2 % 16) * 4 + (b3 \div 64)) + 1] ELSE "=",
              IF n >= 3 THEN Base64Alphabet[(b3 % 64) + 1] ELSE "=" >>
             \o Base64(SubSeq(bytes, 4, n))

\* reader.readAsDataURL(blob): reader.result when the read succeeds
readAsDataURL(blob) == << "data:video/mp4;base64" >> \o << "," >> \o Base64(blob)

EncodeFailedMessage == << "Failed to encode video payload." >>
ReadErrorMessage == << "The requested file could not be read." >>

\* mutant: an empty payload is resolved, not rejected
blobToBase64_NoEmptyCheck(blob, readable) ==
  IF ~readable
    THEN [ ok |-> FALSE, payload |-> << >>, message |-> ReadErrorMessage ]
    ELSE LET pieces == Split(readAsDataURL(blob), ",")
         IN  [ ok |-> TRUE, payload |-> IF Len(pieces) >= 2 THEN pieces[2] ELSE << >>,
               message |-> << >> ]

\* blobToBase64: [ok, payload] when it resolves, [ok = FALSE, message] when it
\* rejects.  An unreadable blob fires error (reject(reader.error)) and then
\* loadend, whose handler throws on the null result after the promise has
\* settled; that exception changes no state of the page.
blobToBase64(blob, readable) ==
  IF ~readable
    THEN [ ok |-> FALSE, payload |-> << >>, message |-> ReadErrorMessage ]
    ELSE LET pieces  == Split(readAsDataURL(blob), ",")
             payload == IF Len(pieces) >= 2 THEN pieces[2] ELSE << >>
         IN  IF ~Truthy(payload)
               THEN [ ok |-> FALSE, payload |-> << >>, message |-> EncodeFailedMessage ]
               ELSE [ ok |-> TRUE, payload |-> payload, message |-> << >> ]

\* a long run of base64 digits written as one token: BulkGroups groups of
\* four digits, three bytes each, one byte short of the upload limit
BulkGroups == (MAX_UPLOAD_SIZE_MB * BytesPerMb) \div 3
BulkDigits == "AAAA repeated BulkGroups times"

\* the number of base64 digits in a text, padding not counted
RECURSIVE DigitCount(_)
DigitCount(base64) ==
  IF base64 = << >> THEN 0
  ELSE (IF Head(base64) = BulkDigits THEN 4 * BulkGroups
        ELSE IF Head(base64) \in { Base64Alphabet[i] : i \in DOMAIN Base64Alphabet } THEN 1
        ELSE 0) + DigitCount(Tail(base64))

\* Buffer.from(base64, "base64").byteLength
decodedByteLength(base64) == (DigitCount(base64) * 3) \div 4

(***************************************************************************)
(* Upload route: POST /api/youtube/upload                                  *)
(***************************************************************************)
JsonObject(rec) == [ type |-> "object", value |-> rec ]

Field(rec, f) == IF f \in DOMAIN rec THEN rec[f] ELSE << >>

parseBody(data) ==
  LET fail(msg) == [ ok |-> FALSE, error |-> msg, value |-> << >> ]
      v == data.value
  IN  IF data.type \notin { "object", "array" } THEN fail(<< "Invalid payload." >>)
      ELSE IF ~Truthy(Field(v, "videoBase64")) THEN fail(<< "Missing video payload." >>)
      ELSE IF ~Truthy(Field(v, "title")) THEN fail(<< "Missing title." >>)
      ELSE IF ~Truthy(Field(v, "description")) THEN fail(<< "Missing description." >>)
      ELSE IF \/ ~Truthy(Field(v, "clientId"))
              \/ ~Truthy(Field(v, "clientSecret"))
              \/ ~Truthy(Field(v, "refreshToken"))
             THEN fail(<< "OAuth credentials are required." >>)
      ELSE [ ok    |-> TRUE,
             error |-> << >>,
             value |-> [ videoBase64   |-> v.videoBase64,
                         title         |-> v.title,
                         description   |-> v.description,
                         tags          |-> Field(v, "tags"),
                         privacyStatus |-> IF "privacyStatus" \in DOMAIN v
                                             THEN v.privacyStatus ELSE Private,
                         clientId      |-> v.clientId,
                         clientSecret  |-> v.clientSecret,
                         refreshToken  |-> v.refreshToken ] ]

\* mutant: a payload of exactly the limit is refused
videoTooLarge_AtLimit(byteLength) == byteLength >= MAX_UPLOAD_SIZE_MB * BytesPerMb

\* sizeMb > MAX_UPLOAD_SIZE_MB, with sizeMb = byteLength / (1024 * 1024)
videoTooLarge(byteLength) == byteLength > MAX_UPLOAD_SIZE_MB * BytesPerMb

decodeVideo(base64) ==
  IF videoTooLarge(decodedByteLength(base64))
    THEN [ ok |-> FALSE, error |-> << "Video too large. Limit is ", "256", "MB." >> ]
    ELSE [ ok |-> TRUE, error |-> << >> ]

\* what youtube.videos.insert may do
ServiceOutcomes ==
  { [ kind |-> "inserted", id |-> Some(<< "abc123" >>), message |-> << >> ],
    [ kind |-> "inserted", id |-> null, message |-> << >> ],
    [ kind |-> "error", id |-> null, message |-> << "quota exceeded" >> ],
    [ kind |-> "thrown", id |-> null, message |-> << >> ] }

JsonResponse(status, id, url, err) ==
  [ status   |-> status,
    parsable |-> TRUE,
    body     |-> [ videoId |-> id, videoUrl |-> url, error |-> err ] ]

\* what request.json(), parseBody or decodeVideo throws (route.ts:65-66), null
\* when none of them throws
thrownBeforeInsert(data) ==
  LET parsed == parseBody(data)
  IN  IF data.type = "unparsable" THEN Some(<< "Unexpected end of JSON input" >>)
      ELSE IF ~parsed.ok THEN Some(parsed.error)
      ELSE IF ~decodeVideo(parsed.value.videoBase64).ok
        THEN Some(decodeVideo(parsed.value.videoBase64).error)
      ELSE null

\* mutant: the video is decoded and measured after the upload call is made
reachesInsert_BeforeSizeCheck(data) ==
  data.type # "unparsable" /\ parseBody(data).ok

\* control reaches youtube.videos.insert (route.ts:68-75), which performs the
\* authorization exchange and the upload
reachesInsert(data) == thrownBeforeInsert(data) = null

\* mutant: an error raised by the upload service is answered with status 500
POST_ServiceError500(data, svc) ==
  LET bad(msg) == JsonResponse(HttpBadRequest, null, null, Some(msg))
  IN  IF ~reachesInsert(data) THEN bad(thrownBeforeInsert(data)[1])
      ELSE IF svc.kind = "error" THEN JsonResponse(500, null, null, Some(svc.message))
      ELSE IF svc.kind = "thrown"
        THEN JsonResponse(500, null, null, Some(<< "Unknown error occurred." >>))
      ELSE JsonResponse(HttpOk, svc.id,
             IF svc.id # null /\ Truthy(svc.id[1])
               THEN Some(<< "https://www.youtube.com/watch?v=" >> \o svc.id[1])
               ELSE null,
             null)

\* a request is [type, value]: the JSON type of its body ("unparsable" when
\* request.json() throws) and, for an object, its members
POST(data, svc) ==
  LET bad(msg) == JsonResponse(HttpBadRequest, null, null, Some(msg))
  IN  IF ~reachesInsert(data) THEN bad(thrownBeforeInsert(data)[1])
      ELSE IF svc.kind = "error" THEN bad(svc.message)
      ELSE IF svc.kind = "thrown" THEN bad(<< "Unknown error occurred." >>)
      ELSE JsonResponse(HttpOk, svc.id,
             IF svc.id # null /\ Truthy(svc.id[1])
               THEN Some(<< "https://www.youtube.com/watch?v=" >> \o svc.id[1])
               ELSE null,
             null)

\* one request handled by the route, from any caller
routePOST(data, svc) ==
  /\ served' = Some([ request  |-> data,
                      service  |-> svc,
                      invoked  |-> reachesInsert(data),
                      response |-> POST(data, svc) ])
  /\ UNCHANGED << clientVars, ops >>

(***************************************************************************)
(* Publish workflow: submitYoutubeUpload                                   *)
(***************************************************************************)
NoVideoAlert == "Generate a video first."

FreeSlots == { k \in DOMAIN uploads : uploads[k].pc = "idle" }

\* mutant: the retained result is not cleared when an attempt starts
submitYoutubeUpload_KeepsResult ==
  IF videoBlob = null
    THEN /\ notice' = [ alert |-> NoVideoAlert, error |-> "" ]
         /\ UNCHANGED << pageVars, scenes, videoVars, youtubeForm, publishVars,
                         engineVars, nextId >>
    ELSE /\ FreeSlots # { }
         /\ isUploading' = TRUE
         /\ LET k == CHOOSE k \in FreeSlots : \A j \in FreeSlots : k <= j
            IN  uploads' = [ uploads EXCEPT ![k] =
                  [ pc |-> "encoding", form |-> youtubeForm, blob |-> videoBlob[1],
                    videoBase64 |-> << >> ] ]
         /\ UNCHANGED << pageVars, scenes, videoVars, youtubeForm, engineVars,
                         notice, nextId, uploadResult >>

\* mutant: the attempt is marked in flight before the guard
submitYoutubeUpload_MarksFirst ==
  IF videoBlob = null
    THEN /\ notice' = [ alert |-> NoVideoAlert, error |-> "" ]
         /\ isUploading' = TRUE
         /\ uploadResult' = null
         /\ UNCHANGED << pageVars, scenes, videoVars, youtubeForm, uploads,
                         engineVars, nextId >>
    ELSE /\ FreeSlots # { }
         /\ isUploading' = TRUE
         /\ uploadResult' = null
         /\ LET k == CHOOSE k \in FreeSlots : \A j \in FreeSlots : k <= j
            IN  uploads' = [ uploads EXCEPT ![k] =
                  [ pc |-> "encoding", form |-> youtubeForm, blob |-> videoBlob[1],
                    videoBase64 |-> << >> ] ]
         /\ UNCHANGED << pageVars, scenes, videoVars, youtubeForm, engineVars,
                         notice, nextId >>

\* the handler up to its first await
submitYoutubeUpload ==
  IF videoBlob = null
    THEN /\ notice' = [ alert |-> NoVideoAlert, error |-> "" ]
         /\ UNCHANGED << pageVars, scenes, videoVars, youtubeForm, publishVars,
                         engineVars, nextId >>
    ELSE /\ FreeSlots # { }
         /\ isUploading' = TRUE
         /\ uploadResult' = null
         /\ LET k == CHOOSE k \in FreeSlots : \A j \in FreeSlots : k <= j
            IN  uploads' = [ uploads EXCEPT ![k] =
                  [ pc |-> "encoding", form |-> youtubeForm, blob |-> videoBlob[1],
                    videoBase64 |-> << >> ] ]
         /\ UNCHANGED << pageVars, scenes, videoVars, youtubeForm, engineVars,
                         notice, nextId >>

\* mutant: the catch block without the finally block
uploadFailed_NoFinally(k, message) ==
  /\ uploadResult' = Some([ success |-> FALSE, message |-> message, url |-> null ])
  /\ UNCHANGED isUploading
  /\ uploads' = [ uploads EXCEPT ![k] = Idle ]

\* catch + finally: setUploadResult({success: false, message}); setIsUploading(false)
uploadFailed(k, message) ==
  /\ uploadResult' = Some([ success |-> FALSE, message |-> message, url |-> null ])
  /\ isUploading' = FALSE
  /\ uploads' = [ uploads EXCEPT ![k] = Idle ]

\* mutant: the url of the response is not copied into the result
uploadSucceeded_DropsUrl(k, url) ==
  /\ uploadResult' =
       Some([ success |-> TRUE, message |-> << "Video uploaded successfully." >>, url |-> null ])
  /\ isUploading' = FALSE
  /\ uploads' = [ uploads EXCEPT ![k] = Idle ]

\* try end + finally: setUploadResult({success: true, ...}); setIsUploading(false)
uploadSucceeded(k, url) ==
  /\ uploadResult' =
       Some([ success |-> TRUE, message |-> << "Video uploaded successfully." >>, url |-> url ])
  /\ isUploading' = FALSE
  /\ uploads' = [ uploads EXCEPT ![k] = Idle ]

\* await blobToBase64(videoBlob) settles; on success fetch() is called
encodeSettled(k, readable) ==
  /\ uploads[k].pc = "encoding"
  /\ LET encoded == blobToBase64(uploads[k].blob, readable)
     IN  IF encoded.ok
           THEN /\ uploads' = [ uploads EXCEPT ![k].pc = "fetching",
                                               ![k].videoBase64 = encoded.payload ]
                /\ UNCHANGED << isUploading, uploadResult >>
           ELSE uploadFailed(k, encoded.message)
  /\ UNCHANGED << pageVars, scenes, videoVars, youtubeForm, engineVars, notice, nextId >>

\* mutant: the encoded video is left out of the body
requestBody_NoVideo(attempt) == attempt.form

\* body: JSON.stringify({ ...youtubeForm, videoBase64 })
requestBody(attempt) == Merge(attempt.form, [ videoBase64 |-> attempt.videoBase64 ])

\* responses that do not come from the route: a body that is not JSON, and a
\* JSON error body without an error member
TransportResponses ==
  { [ status |-> 500, parsable |-> FALSE,
      body |-> [ videoId |-> null, videoUrl |-> null, error |-> null ] ],
    [ status |-> 502, parsable |-> TRUE,
      body |-> [ videoId |-> null, videoUrl |-> null, error |-> null ] ] }

Responses(attempt) ==
  { POST(JsonObject(requestBody(attempt)), svc) : svc \in ServiceOutcomes }
    \cup TransportResponses

responseOk(response) == response.status >= 200 /\ response.status <= 299

\* await fetch(...) rejects
fetchFailed(k) ==
  /\ uploads[k].pc = "fetching"
  /\ uploadFailed(k, << "Failed to fetch" >>)
  /\ UNCHANGED << pageVars, scenes, videoVars, youtubeForm, engineVars, notice, nextId >>

\* await fetch(...) and await response.json() settle
fetchSettled(k, response) ==
  /\ uploads[k].pc = "fetching"
  /\ IF ~response.parsable
       THEN uploadFailed(k, << "Unexpected token < in JSON at position 0" >>)
     ELSE IF ~responseOk(response)
       THEN uploadFailed(k, IF response.body.error # null
                              THEN response.body.error[1]
                              ELSE << "Unable to upload video." >>)
     ELSE uploadSucceeded(k, response.body.videoUrl)
  /\ UNCHANGED << pageVars, scenes, videoVars, youtubeForm, engineVars, notice, nextId >>

(***************************************************************************)
(* Inputs                                                                  *)
(***************************************************************************)
TopicInputs == { defaultTopic, << >>, << " " >>, << " ", "T", " " >> }

\* ids makeId has returned so far
AllocatedIds == 1..(nextId - 1)

\* the patches the page's controls build: one field each
UiPatches ==
  { [ title |-> << "Edited" >> ], [ narration |-> << >> ], [ emphasis |-> << "Edited" >> ],
    [ gradient |-> gradientOptions[2] ], [ duration |-> maxDuration ] }

\* other values of Partial<Scene>
ApiPatches(ids) ==
  { [ id |-> k ] : k \in ids }
    \cup { [ duration |-> d ] : d \in { minDuration - 2, maxDuration + 5 } }
    \cup { [ title |-> << "Edited" >>, duration |-> maxDuration ] }

\* an id patch names the first or the latest id allocated
Patches == UiPatches \cup ApiPatches(AllocatedIds \cap { 1, nextId - 1 })

\* the ids update is called with: the first two and the latest allocated, in
\* the store or removed from it
UpdateTargets == AllocatedIds \cap { 1, 2, nextId - 1 }

\* scene objects a caller may still hold after the store dropped them: the
\* seed scenes whose id is no longer in the store
DetachedScenes ==
  { s \in UNION { Range(buildScenesFromTopic(defaultTopic, 1, draws)) : draws \in SeedDraws } :
      s.id \notin SceneIds }

AudioFiles == { << >>, << "track.mp3" >> }

TextInputs == { << >>, << "a" >> }
PrivacyInputs == PrivacyStatuses \cup { << "friends" >>, << >> }
TagAlphabet == { "a", ",", " " }
\* every raw input up to MaxRawLen characters, and "a, ,b,b "
TagInputs ==
  UNION { [ 1..n -> TagAlphabet ] : n \in 0..MaxRawLen }
    \cup { << "a", ",", " ", ",", "b", ",", "b", " " >> }

FormInputs(key) ==
  CASE key = "tags" -> TagInputs
    [] key = "privacyStatus" -> PrivacyInputs
    [] OTHER -> TextInputs

\* the edits SpecPublish explores: filling in the three credentials
PublishEdits ==
  { << "clientId", << "a" >> >>, << "clientSecret", << "a" >> >>,
    << "refreshToken", << "a" >> >> }

\* the edits SpecRequest explores: a credential, the tags, blanking the title
RequestEdits ==
  { << "clientId", << "a" >> >>, << "tags", << "x", ",", "y" >> >>, << "title", << >> >> }

\* the render results SpecPublish explores: an artifact with bytes, an empty one
PublishRenderResults == { r \in RenderResults : Len(r.blob) <= 1 }

\* palette entries Math.random picks for an added scene in SpecStore
AddDraws == { 1, Len(gradientOptions) }

\* video payloads: one byte, exactly the upload limit, one byte over it
SmallVideo == << "T", "Q", "=", "=" >>
LimitVideo == << BulkDigits, "T", "Q", "=", "=" >>
OverVideo == << BulkDigits, "T", "V", "A", "=" >>
RouteVideos == { SmallVideo, LimitVideo, OverVideo }

RouteRequired ==
  { "videoBase64", "title", "description", "clientId", "clientSecret", "refreshToken" }

\* request bodies: not JSON, JSON that is not an object, an array, objects with
\* any set of the required members, objects with one member empty, and a
\* body as the page sends it
RouteRequests ==
  { [ type |-> t, value |-> << >> ] :
      t \in { "unparsable", "null", "string", "number", "boolean", "array" } }
    \cup { JsonObject([ f \in present |-> IF f = "videoBase64" THEN video ELSE << "a" >> ]) :
             present \in SUBSET RouteRequired, video \in RouteVideos }
    \cup { JsonObject([ f \in RouteRequired |->
                         IF f = empty THEN << >>
                         ELSE IF f = "videoBase64" THEN SmallVideo ELSE << "a" >> ]) :
             empty \in RouteRequired }
    \cup { JsonObject(Merge(initialYoutubeForm(defaultTopic),
                             [ videoBase64 |-> SmallVideo, clientId |-> << "a" >>,
                               clientSecret |-> << "a" >>, refreshToken |-> << "a" >> ])) }

(***************************************************************************)
(* Specifications.  Each one is the page restricted to some of its         *)
(* controls; the handlers it leaves out write none of the variables its    *)
(* handlers read.                                                          *)
(***************************************************************************)
\* the render pipeline: the engine, the render button, removing scenes
Next ==
  \/ load /\ UNCHANGED << ops, served >>
  \/ loadDone /\ UNCHANGED << ops, served >>
  \/ loadFail /\ UNCHANGED << ops, served >>
  \/ \E id \in AllocatedIds : handleRemoveScene(id) /\ UNCHANGED << ops, served >>
  \/ \E files \in AudioFiles : handleAudioUpload(files) /\ UNCHANGED << ops, served >>
  \/ beginGeneration /\ UNCHANGED << ops, served >>
  \/ renderProgress /\ UNCHANGED << ops, served >>
  \/ \E i \in 1..Len(renders), result \in RenderResults : renderDone(i, result) /\ UNCHANGED << ops, served >>
  \/ \E i \in 1..Len(renders) : renderFail(i) /\ UNCHANGED << ops, served >>

Spec == Init /\ [][Next]_vars

\* the scene store: MaxOps operations from the seeded store
Counted == ops < MaxOps /\ ops' = ops + 1 /\ UNCHANGED served

NextStore ==
  \/ Counted /\ \E draws \in SeedDraws : regenerateScenes(draws)
  \/ Counted /\ \E id \in UpdateTargets, updates \in Patches : updateScene(id, updates)
  \/ Counted /\ \E draw \in AddDraws : handleAddScene(draw)
  \/ Counted /\ \E scene \in Range(scenes) \cup DetachedScenes : handleDuplicateScene(scene)
  \/ Counted /\ \E id \in AllocatedIds : handleRemoveScene(id)

SpecStore == Init /\ [][NextStore]_vars

\* the publish form
NextForm ==
  \E key \in FormKeys : \E value \in FormInputs(key) :
    handleYoutubeChange(key, value) /\ UNCHANGED << ops, served >>

SpecForm == Init /\ [][NextForm]_vars

\* the video metadata fields of the form, without the credentials
MetadataKeys == { "title", "description", "tags", "privacyStatus" }

NextTags ==
  \E key \in MetadataKeys : \E value \in FormInputs(key) :
    handleYoutubeChange(key, value) /\ UNCHANGED << ops, served >>

SpecTags == Init /\ [][NextTags]_vars

\* seeding: the topic input, the regenerate button, and removals in between
NextSeed ==
  \/ \E value \in TopicInputs : setTopic(value) /\ UNCHANGED << ops, served >>
  \/ \E draws \in SeedDraws : regenerateScenes(draws) /\ UNCHANGED << ops, served >>
  \/ \E id \in SceneIds : handleRemoveScene(id) /\ UNCHANGED << ops, served >>

SpecSeed == Init /\ [][NextSeed]_vars

\* the durations SpecRuntime sets: below the floor, the floor, the maximum
RuntimeDurations == { minDuration - 2, minDuration, maxDuration }

\* the scene store under removals and duration updates
NextRuntime ==
  \/ \E id \in SceneIds : handleRemoveScene(id) /\ UNCHANGED << ops, served >>
  \/ \E id \in SceneIds, d \in RuntimeDurations :
       updateScene(id, [ duration |-> d ]) /\ UNCHANGED << ops, served >>

SpecRuntime == Init /\ [][NextRuntime]_vars

\* the awaits of one suspended submitYoutubeUpload call
encodeStep(k) == \E readable \in BOOLEAN : encodeSettled(k, readable) /\ UNCHANGED << ops, served >>

fetchStep(k) ==
  \/ fetchFailed(k) /\ UNCHANGED << ops, served >>
  \/ /\ uploads[k].pc = "fetching"
     /\ \E response \in Responses(uploads[k]) : fetchSettled(k, response) /\ UNCHANGED << ops, served >>

\* the publish workflow, with the renders that give it an artifact
NextPublish ==
  \/ load /\ UNCHANGED << ops, served >>
  \/ loadDone /\ UNCHANGED << ops, served >>
  \/ beginGeneration /\ UNCHANGED << ops, served >>
  \/ \E i \in 1..Len(renders), result \in PublishRenderResults : renderDone(i, result) /\ UNCHANGED << ops, served >>
  \/ \E i \in 1..Len(renders) : renderFail(i) /\ UNCHANGED << ops, served >>
  \/ \E edit \in PublishEdits : handleYoutubeChange(edit[1], edit[2]) /\ UNCHANGED << ops, served >>
  \/ submitYoutubeUpload /\ UNCHANGED << ops, served >>
  \/ \E k \in DOMAIN uploads : encodeStep(k)
  \/ \E k \in DOMAIN uploads : fetchStep(k)

SpecPublish == Init /\ [][NextPublish]_vars

\* every pending await settles: the FileReader fires loadend or error, and the
\* request is answered or fails
SpecPublishFair ==
  /\ SpecPublish
  /\ \A k \in 1..MaxUploads : WF_vars(encodeStep(k)) /\ WF_vars(fetchStep(k))

\* the publish workflow under metadata edits, with every render result
NextRequest ==
  \/ load /\ UNCHANGED << ops, served >>
  \/ loadDone /\ UNCHANGED << ops, served >>
  \/ beginGeneration /\ UNCHANGED << ops, served >>
  \/ \E i \in 1..Len(renders), result \in RenderResults : renderDone(i, result) /\ UNCHANGED << ops, served >>
  \/ \E edit \in RequestEdits : handleYoutubeChange(edit[1], edit[2]) /\ UNCHANGED << ops, served >>
  \/ submitYoutubeUpload /\ UNCHANGED << ops, served >>
  \/ \E k \in DOMAIN uploads : encodeStep(k)
  \/ \E k \in DOMAIN uploads : fetchStep(k)

SpecRequest == Init /\ [][NextRequest]_vars

\* the durations SpecDuration sets: the ends of the slider's range, and a
\* value on either side of it
SubmittedDurations == { minDuration - 2, minDuration, maxDuration, maxDuration + 5 }

\* the render pipeline under duration updates of the first two scenes
NextDuration ==
  \/ load /\ UNCHANGED << ops, served >>
  \/ loadDone /\ UNCHANGED << ops, served >>
  \/ \E id \in SceneIds \cap { 1, 2 }, d \in SubmittedDurations :
       updateScene(id, [ duration |-> d ]) /\ UNCHANGED << ops, served >>
  \/ beginGeneration /\ UNCHANGED << ops, served >>
  \/ \E i \in 1..Len(renders), result \in PublishRenderResults :
       renderDone(i, result) /\ UNCHANGED << ops, served >>
  \/ \E i \in 1..Len(renders) : renderFail(i) /\ UNCHANGED << ops, served >>

SpecDuration == Init /\ [][NextDuration]_vars

\* the patches SpecSnapshot applies
SnapshotPatches == { [ title |-> << "Edited" >> ], [ duration |-> maxDuration ] }

\* the render pipeline with MaxOps scene-store operations around it
NextSnapshot ==
  \/ load /\ UNCHANGED << ops, served >>
  \/ loadDone /\ UNCHANGED << ops, served >>
  \/ beginGeneration /\ UNCHANGED << ops, served >>
  \/ \E i \in 1..Len(renders), result \in PublishRenderResults :
       renderDone(i, result) /\ UNCHANGED << ops, served >>
  \/ \E i \in 1..Len(renders) : renderFail(i) /\ UNCHANGED << ops, served >>
  \/ handleAudioUpload(<< "track.mp3" >>) /\ UNCHANGED << ops, served >>
  \/ Counted /\ regenerateScenes(<< 1, 2, 3, 4, 5, 6 >>)
  \/ Counted /\ \E id \in SceneIds \cap { 1, 2 }, updates \in SnapshotPatches :
                   updateScene(id, updates)
  \/ Counted /\ handleAddScene(1)
  \/ Counted /\ \E scene \in { x \in Range(scenes) : x.id = 1 } : handleDuplicateScene(scene)
  \/ Counted /\ \E id \in SceneIds \cap { 1, 2 } : handleRemoveScene(id)

SpecSnapshot == Init /\ [][NextSnapshot]_vars

\* the publish workflow with the topic input and the regenerate button
NextRegenerate ==
  \/ load /\ UNCHANGED << ops, served >>
  \/ loadDone /\ UNCHANGED << ops, served >>
  \/ beginGeneration /\ UNCHANGED << ops, served >>
  \/ \E i \in 1..Len(renders), result \in { r \in RenderResults : Len(r.blob) = 1 } :
       renderDone(i, result) /\ UNCHANGED << ops, served >>
  \/ \E edit \in PublishEdits : handleYoutubeChange(edit[1], edit[2]) /\ UNCHANGED << ops, served >>
  \/ setTopic(<< " ", "T", " " >>) /\ UNCHANGED << ops, served >>
  \/ regenerateScenes(<< 1, 2, 3, 4, 5, 6 >>) /\ UNCHANGED << ops, served >>
  \/ submitYoutubeUpload /\ UNCHANGED << ops, served >>
  \/ \E k \in DOMAIN uploads : encodeStep(k)
  \/ \E k \in DOMAIN uploads : fetchStep(k)

SpecRegenerate == Init /\ [][NextRegenerate]_vars

\* the upload route under requests from any caller
NextRoute ==
  \E data \in RouteRequests, svc \in ServiceOutcomes : routePOST(data, svc)

SpecRoute == Init /\ [][NextRoute]_vars

(***************************************************************************)
(* Claims                                                                  *)
(***************************************************************************)
InFlight(k) == uploads[k].pc # "idle"
Dispatched(k) == uploads[k].pc = "fetching"
VideoCleared == videoUrl = null /\ videoBlob = null

\* C1 (SpecForm): in every reachable state youtubeForm.privacyStatus is one of
\* public, unlisted, private, because an update of privacyStatus with any
\* other value is rejected.
C1_PrivacyStatusClosed == youtubeForm.privacyStatus \in PrivacyStatuses

\* C2 (SpecPublish): no request is dispatched to the upload service by an
\* attempt that was submitted while canPublish(form, hasArtifact) was false:
\* every attempt awaiting the upload service carries a form that, with its
\* artifact, satisfies the readiness predicate.
C2_DispatchOnlyWhenReady ==
  \A k \in DOMAIN uploads : Dispatched(k) => isYoutubeFormValid(uploads[k].form, TRUE)

\* C3 (SpecPublish): a Publish Result is never present while the in-flight
\* flag is set: isUploading = TRUE implies uploadResult = null.
C3_NoResultWhileUploading == isUploading => uploadResult = null

\* C3 witness: an attempt is suspended at the upload service with the flag set
C3_Witness ==
  isUploading /\ uploadResult = null /\ \E k \in DOMAIN uploads : Dispatched(k)

\* C4 (SpecPublishFair): every publish attempt that marked itself in flight
\* eventually terminates, and when it has terminated the in-flight flag is
\* cleared and a Publish Result is set, whatever encoding, the network call and
\* the response parsing did.
C4_AttemptTerminates ==
  \A k \in 1..MaxUploads :
    InFlight(k) ~> (~InFlight(k) /\ ~isUploading /\ uploadResult # null)

\* C4 witness: an attempt has terminated in failure: nothing is in flight, the
\* flag is cleared and the retained result is a failure
C4_Witness ==
  /\ \A k \in DOMAIN uploads : ~InFlight(k)
  /\ ~isUploading
  /\ uploadResult # null
  /\ ~uploadResult[1].success

\* C5 (SpecPublish): starting a render clears videoUrl and videoBlob as its
\* first effect, both stay null while a render is in flight and after it
\* failed, and a submit made while a render is in flight starts no attempt.
C5_RenderClearsPriorResult ==
  /\ [](renders # << >> => VideoCleared)
  /\ [][beginGeneration => VideoCleared']_vars
  /\ [][(\E i \in 1..Len(renders) : renderFail(i)) => VideoCleared']_vars
  /\ [][(renders # << >> /\ submitYoutubeUpload) => UNCHANGED uploads]_vars

\* C5 witness: a render is in flight with the artifact state cleared, while an
\* attempt started before it still holds the artifact of the previous render
C5_Witness ==
  renders # << >> /\ VideoCleared /\ \E k \in DOMAIN uploads : InFlight(k)

\* C6 (Spec): at most one render is in flight, and a render attempt made while
\* one is running is rejected with EngineBusy and leaves the running render,
\* its progress and the engine state unchanged.
C6_SingleFlight ==
  /\ [](Len(renders) <= 1)
  /\ [][(engine = "Rendering" /\ beginGeneration)
          => (notice'.error = "EngineBusy" /\ UNCHANGED << renders, progress, engine >>)]_vars

\* C6 witness: a render is running, has reported progress, and a second
\* attempt has been rejected with EngineBusy
C6_Witness == Len(renders) = 1 /\ progress > 0 /\ notice.error = "EngineBusy"

\* C7 (Spec): no composition with an empty scenes sequence is ever submitted
\* to the render engine.
C7_NoEmptyComposition == \A i \in 1..Len(renders) : renders[i].scenes # << >>

\* C8 (SpecStore): duplicating a scene whose id is not in the scene store
\* leaves the scene store unchanged.
C8_DuplicateAbsentIsNoOp ==
  [][\A scene \in DetachedScenes : handleDuplicateScene(scene) => scenes' = scenes]_vars

\* what update(id, updates) may change: the fields named in updates, on the
\* scenes whose id is id
UpdateFrame(id, updates) ==
  /\ Len(scenes') = Len(scenes)
  /\ \A i \in 1..Len(scenes) :
       IF scenes[i].id = id
         THEN /\ DOMAIN scenes'[i] = DOMAIN scenes[i]
              /\ \A f \in DOMAIN scenes[i] :
                   scenes'[i][f] = IF f \in DOMAIN updates THEN updates[f] ELSE scenes[i][f]
         ELSE scenes'[i] = scenes[i]
  /\ id \notin SceneIds => scenes' = scenes

\* C9 (SpecStore): update(id, patch) changes only the fields named in the
\* patch, only on the scene whose id matches; the other fields, the other
\* scenes, and the length and order of the sequence are unchanged, and the
\* store is unchanged when no scene has that id.
C9_UpdateFrame ==
  [][\A id \in UpdateTargets : \A updates \in Patches :
       updateScene(id, updates) => UpdateFrame(id, updates)]_vars

\* C9 witness: one scene of the seeded store carries a patched title and its
\* seeded duration, beside a scene that is as seeded
C9_Witness ==
  /\ Len(scenes) = NumSeedScenes
  /\ \E i, j \in 1..Len(scenes) :
       /\ scenes[i].title = << "Edited" >>
       /\ scenes[i].duration = SeedDuration
       /\ scenes[j].title = << "Hook" >>

\* C10 (SpecStore): scene ids are pairwise distinct in the scene store.
C10_UniqueIds ==
  \A i, j \in 1..Len(scenes) : i # j => scenes[i].id # scenes[j].id

(***************************************************************************)
(* C11 .. C20                                                              *)
(***************************************************************************)
RequiredFields == { "clientId", "clientSecret", "refreshToken", "title", "description" }

\* the form with tags, privacyStatus and status replaced
WithInert(form, tags, privacy, status) ==
  [ form EXCEPT !.tags = tags, !.privacyStatus = privacy, !.status = status ]

\* C11 (SpecForm): canPublish(form, hasArtifact) is true exactly when an
\* artifact exists and clientId, clientSecret, refreshToken, title and
\* description are all non-empty; replacing tags, privacyStatus or status
\* never changes the result.
C11_CanPublishIff ==
  \A hasVideo \in BOOLEAN :
    /\ isYoutubeFormValid(youtubeForm, hasVideo)
         <=> (hasVideo /\ \A f \in RequiredFields : youtubeForm[f] # << >>)
    /\ \A tags \in { << >>, << << "a" >> >> } : \A privacy \in PrivacyInputs :
         \A status \in TextInputs :
           isYoutubeFormValid(WithInert(youtubeForm, tags, privacy, status), hasVideo)
             = isYoutubeFormValid(youtubeForm, hasVideo)

\* C11 witness: every required field is filled in while tags is empty and
\* privacyStatus is outside the enumeration, so the form is publishable
\* exactly when an artifact exists
C11_Witness ==
  /\ \A f \in RequiredFields : youtubeForm[f] # << >>
  /\ youtubeForm.tags = << >>
  /\ youtubeForm.privacyStatus = << "friends" >>
  /\ isYoutubeFormValid(youtubeForm, TRUE)
  /\ ~isYoutubeFormValid(youtubeForm, FALSE)

Durations(s) == [ i \in 1..Len(s) |-> s[i].duration ]

\* sum of max(s[i].duration, 4) over the first n scenes
RECURSIVE FlooredSum(_, _)
FlooredSum(s, n) ==
  IF n = 0 THEN 0
  ELSE FlooredSum(s, n - 1) + (IF s[n].duration < 4 THEN 4 ELSE s[n].duration)

\* C12 (SpecRuntime): total runtime is the sum over all scenes of
\* max(scene.duration, 4); durations [4, 6, 20, 2] give 34 and the empty
\* store gives 0.
C12_TotalRuntime ==
  /\ totalRuntime = FlooredSum(scenes, Len(scenes))
  /\ Durations(scenes) = << 4, 6, 20, 2 >> => totalRuntime = 34
  /\ scenes = << >> => totalRuntime = 0

\* C12 witness: the store holds four scenes of durations 4, 6, 20 and 2
C12_Witness == Durations(scenes) = << 4, 6, 20, 2 >> /\ totalRuntime = 34

SeedRoles ==
  << << "Hook" >>, << "System Overview" >>, << "Asset Generation" >>,
     << "Video Assembly" >>, << "Deployment" >>, << "Call To Action" >> >>

Blank(t) == \A i \in 1..Len(t) : t[i] = " "

HookNarration(focus) ==
  << "Why spend days editing when " >> \o focus
    \o << " lets you storyboard, narrate, and publish while you sleep?" >>

\* s is a fresh seeding from topic t
SeededFrom(s, t) ==
  /\ Len(s) = 6
  /\ [ i \in 1..Len(s) |-> s[i].title ] = SeedRoles
  /\ \A i \in 1..Len(s) : s[i].duration = 6
  /\ totalRuntimeOf(s) = 36
  /\ Blank(t) => s[1].narration = HookNarration(defaultTopic)
  /\ t = << " ", "T", " " >> => s[1].narration = HookNarration(<< "T" >>)

\* C13 (SpecSeed): seeding from any topic, a blank or whitespace-only one
\* falling back to the default topic, produces exactly 6 scenes in the fixed
\* role order, each of duration 6, so the total runtime right after seeding
\* is 36; this holds for the initial seeding and for every regeneration.
C13_Seeding ==
  /\ SeededFrom(scenes, defaultTopic)
  /\ [][(\E draws \in SeedDraws : regenerateScenes(draws)) => SeededFrom(scenes', topic)]_vars

\* C13 witness: the store was regenerated from a whitespace-only topic
C13_Witness ==
  /\ topic = << " " >>
  /\ Len(scenes) = 6
  /\ scenes[1].id > NumSeedScenes
  /\ scenes[1].narration = HookNarration(defaultTopic)
  /\ totalRuntime = 36

\* positions just before a piece of raw: 0 and the position of every comma
PieceStarts(raw) == { p \in 0..Len(raw) : p = 0 \/ raw[p] = "," }

\* position just after the piece that starts after p
PieceEnd(raw, p) ==
  CHOOSE q \in (p + 1)..(Len(raw) + 1) :
    /\ q = Len(raw) + 1 \/ raw[q] = ","
    /\ \A r \in (p + 1)..(q - 1) : raw[r] # ","

\* the piece that starts after p, without its leading and trailing spaces
PieceText(raw, p) ==
  LET inked == { r \in (p + 1)..(PieceEnd(raw, p) - 1) : raw[r] # " " }
  IN  IF inked = { } THEN << >>
      ELSE SubSeq(raw, CHOOSE r \in inked : \A t \in inked : r <= t,
                       CHOOSE r \in inked : \A t \in inked : r >= t)

ExpectedTags(raw) ==
  LET kept == { p \in PieceStarts(raw) : PieceText(raw, p) # << >> }
  IN  [ k \in 1..Cardinality(kept) |->
          PieceText(raw, CHOOSE p \in kept : Cardinality({ q \in kept : q <= p }) = k) ]

Normalized(tags) ==
  \A k \in 1..Len(tags) :
    /\ tags[k] # << >>
    /\ tags[k][1] # " "
    /\ tags[k][Len(tags[k])] # " "

\* C14 (SpecTags): on every update of the tags field the stored tags are the
\* comma-separated pieces of the raw input, each trimmed, empty pieces
\* dropped, in input order and without deduplication ("a, ,b,b " gives
\* a, b, b); no stored tag is empty or has leading or trailing whitespace.
C14_TagsNormalized ==
  /\ [](Normalized(youtubeForm.tags))
  /\ [][\A raw \in TagInputs :
          handleYoutubeChange("tags", raw) => youtubeForm'.tags = ExpectedTags(raw)]_vars
  /\ [](parseTags(<< "a", ",", " ", ",", "b", ",", "b", " " >>)
          = << << "a" >>, << "b" >>, << "b" >> >>)

\* C14 witness: the tags field was updated with "a, ,b,b "
C14_Witness == youtubeForm.tags = << << "a" >>, << "b" >>, << "b" >> >>

GenericFailureMessage == << "Unable to upload video." >>

Failure(message) == Some([ success |-> FALSE, message |-> message, url |-> null ])

\* C15 (SpecPublish): when the upload request gets a non-success response,
\* the attempt ends with a Publish Result of success = false whose message is
\* the server-supplied error string when one is present and the generic
\* failure message otherwise, and no url.
C15_RejectionMessage ==
  [][\A k \in DOMAIN uploads : Dispatched(k) =>
       \A response \in Responses(uploads[k]) :
         (~responseOk(response) /\ fetchSettled(k, response)) =>
           uploadResult' = Failure(IF response.body.error # null
                                     THEN response.body.error[1]
                                     ELSE GenericFailureMessage)]_vars

WatchUrl(id) == << "https://www.youtube.com/watch?v=" >> \o id

Success(url) ==
  Some([ success |-> TRUE, message |-> << "Video uploaded successfully." >>, url |-> url ])

\* the route hands the request of attempt k to the upload service
ReachesService(k) ==
  /\ \A f \in RequiredFields : uploads[k].form[f] # << >>
  /\ uploads[k].videoBase64 # << >>

\* C16 (SpecPublish): when the upload service answers the request with a
\* video identifier, the attempt ends with success = true and the url
\* https://www.youtube.com/watch?v=<videoId>; when it returns no identifier
\* the result is still success, without a url.
C16_SuccessUrl ==
  [][\A k \in DOMAIN uploads : (Dispatched(k) /\ ReachesService(k)) =>
       \A svc \in { o \in ServiceOutcomes : o.kind = "inserted" } :
         fetchSettled(k, POST(JsonObject(requestBody(uploads[k])), svc)) =>
           uploadResult' = Success(IF svc.id # null THEN Some(WatchUrl(svc.id[1])) ELSE null)]_vars

\* C16 witness: an attempt has ended with the watch url of video abc123
C16_Witness ==
  /\ uploadResult = Success(Some(<< "https://www.youtube.com/watch?v=", "abc123" >>))
  /\ ~isUploading

Base64Value(c) == (CHOOSE i \in DOMAIN Base64Alphabet : Base64Alphabet[i] = c) - 1

\* the bytes a base64 text stands for
RECURSIVE Base64Decode(_)
Base64Decode(text) ==
  IF Len(text) < 4 THEN << >>
  ELSE LET v1 == Base64Value(text[1])
           v2 == Base64Value(text[2])
           v3 == IF text[3] = "=" THEN 0 ELSE Base64Value(text[3])
           v4 == IF text[4] = "=" THEN 0 ELSE Base64Value(text[4])
           b1 == v1 * 4 + (v2 \div 16)
           b2 == (v2 % 16) * 16 + (v3 \div 4)
           b3 == (v3 % 4) * 64 + v4
       IN  (IF text[3] = "=" THEN << b1 >>
            ELSE IF text[4] = "=" THEN << b1, b2 >>
            ELSE << b1, b2, b3 >>) \o Base64Decode(SubSeq(text, 5, Len(text)))

BodyFields ==
  { "title", "description", "tags", "privacyStatus", "clientId", "clientSecret",
    "refreshToken" }

\* the body of attempt k carries the form and the artifact the attempt holds
CarriesSnapshot(k) ==
  LET body == requestBody(uploads[k])
  IN  /\ BodyFields \cup { "videoBase64" } \subseteq DOMAIN body
      /\ \A f \in BodyFields : body[f] = uploads[k].form[f]
      /\ Normalized(body.tags)
      /\ body.videoBase64 # << >>
      /\ Base64Decode(body.videoBase64) = uploads[k].blob

\* C17 (SpecRequest): every dispatched request body carries the form as it
\* was at submit time (tags being the stored normalized sequence) and a
\* non-empty videoBase64 that encodes the artifact present at submit time:
\* an attempt takes the form and the artifact of the state it is submitted
\* in, keeps them while it is in flight whatever is edited or rendered
\* meanwhile, and its dispatched body is made of them.
C17_BodySnapshot ==
  /\ [][(videoBlob # null /\ submitYoutubeUpload) =>
          \E k \in DOMAIN uploads :
            /\ ~InFlight(k) /\ InFlight(k)'
            /\ uploads'[k].form = youtubeForm
            /\ uploads'[k].blob = videoBlob[1]]_vars
  /\ [][\A k \in DOMAIN uploads : (InFlight(k) /\ InFlight(k)') =>
          (uploads'[k].form = uploads[k].form /\ uploads'[k].blob = uploads[k].blob)]_vars
  /\ [](\A k \in DOMAIN uploads : Dispatched(k) => CarriesSnapshot(k))

\* C17 witness: a request is in flight with tags x, y and the title it was
\* submitted with, after the title was blanked in the form
C17_Witness ==
  \E k \in DOMAIN uploads :
    /\ Dispatched(k)
    /\ requestBody(uploads[k]).tags = << << "x" >>, << "y" >> >>
    /\ requestBody(uploads[k]).title = defaultTopic
    /\ requestBody(uploads[k]).videoBase64 = << "T", "Q", "=", "=" >>
    /\ youtubeForm.title = << >>

\* the request is an object with every required member non-empty
HasAllRequired(data) ==
  /\ data.type = "object"
  /\ \A f \in RouteRequired : f \in DOMAIN data.value /\ data.value[f] # << >>

Oversize(data) == HasAllRequired(data) /\ data.value.videoBase64 = OverVideo

UploadSucceeds(data, svc) ==
  HasAllRequired(data) /\ ~Oversize(data) /\ svc.kind = "inserted"

OkShape(response, svc) ==
  /\ response.status = 200
  /\ response.body.videoId = svc.id
  /\ response.body.videoUrl = (IF svc.id # null THEN Some(WatchUrl(svc.id[1])) ELSE null)
  /\ response.body.error = null

ErrorShape(response) ==
  /\ response.status = 400
  /\ response.body.error # null
  /\ response.body.videoId = null
  /\ response.body.videoUrl = null

\* C18 (SpecRoute): the endpoint answers every request with exactly one of
\* two shapes: HTTP 200 with {videoId, videoUrl} when the upload succeeded,
\* or HTTP 400 with {error: string} for every failure (a missing required
\* field, a body that is not an object, an oversize payload, an error raised
\* by the upload service); no other status is returned.
C18_TwoShapes ==
  served # null =>
    LET data     == served[1].request
        svc      == served[1].service
        response == served[1].response
    IN  /\ response.parsable
        /\ response.status \in { 200, 400 }
        /\ IF UploadSucceeds(data, svc) THEN OkShape(response, svc) ELSE ErrorShape(response)

\* C18 witness: a request with every member but the title, handed to a
\* service that would accept it, was answered 400 "Missing title."
C18_Witness ==
  /\ served # null
  /\ served[1].request.type = "object"
  /\ DOMAIN served[1].request.value = RouteRequired \ { "title" }
  /\ served[1].service.kind = "inserted"
  /\ served[1].response.status = 400
  /\ served[1].response.body.error = Some(<< "Missing title." >>)

\* the number of bytes each payload decodes to
PayloadBytes(video) ==
  CASE video = SmallVideo -> 1
    [] video = LimitVideo -> 256 * 1024 * 1024
    [] video = OverVideo -> 256 * 1024 * 1024 + 1

SizeLimitMessage == << "Video too large. Limit is ", "256", "MB." >>

\* C19 (SpecRoute): a request whose decoded video payload is larger than
\* 256 * 1024 * 1024 bytes fails with HTTP 400 and the size-limit message; a
\* payload of exactly that size or less passes the size check, so the
\* request goes on to the upload service.
C19_SizeLimit ==
  (served # null /\ HasAllRequired(served[1].request)) =>
    LET video    == served[1].request.value.videoBase64
        response == served[1].response
    IN  /\ decodedByteLength(video) = PayloadBytes(video)
        /\ IF PayloadBytes(video) > 256 * 1024 * 1024
             THEN /\ response.status = 400
                  /\ response.body.error = Some(SizeLimitMessage)
             ELSE /\ response.body.error # Some(SizeLimitMessage)
                  /\ served[1].service.kind = "inserted" => response.status = 200

\* C19 witness: a payload one byte over the limit was refused although the
\* service would have accepted it
C19_Witness ==
  /\ served # null
  /\ HasAllRequired(served[1].request)
  /\ served[1].request.value.videoBase64 = OverVideo
  /\ served[1].service.kind = "inserted"
  /\ served[1].response.status = 400
  /\ served[1].response.body.error = Some(SizeLimitMessage)

\* C20 (SpecDuration): every scene of a composition submitted to the render
\* engine has a duration in the closed interval [4, 20]; a duration outside
\* it, set through update by any path, is clamped or rejected before the
\* render job is built.
C20_DurationsInRange ==
  \A i \in 1..Len(renders) : \A j \in 1..Len(renders[i].scenes) :
    /\ renders[i].scenes[j].duration >= 4
    /\ renders[i].scenes[j].duration <= 20

\* C21 (SpecSnapshot): a composition submitted to the render engine is a
\* snapshot: it is built from the store, the fixed dimensions and fps and the
\* audio of the state it is submitted in, and any add, update, remove,
\* duplicate, regenerate or audio change while that render is in flight
\* leaves it as submitted.
C21_CompositionSnapshot ==
  /\ [][(engine = "Ready" /\ beginGeneration) =>
          renders'[Len(renders')] =
            [ scenes |-> scenes, width |-> 1280, height |-> 720, fps |-> 30,
              backgroundAudio |-> backgroundAudio ]]_vars
  /\ [][(engine = "Rendering" /\ engine' = "Rendering") => renders' = renders]_vars

\* C21 witness: a render is in flight whose composition has the first scene as
\* seeded and no audio, while the store has it edited and an audio track is set
C21_Witness ==
  /\ engine = "Rendering"
  /\ Len(renders) = 1
  /\ renders[1].scenes[1].title = << "Hook" >>
  /\ renders[1].backgroundAudio = null
  /\ scenes # << >>
  /\ scenes[1].title = << "Edited" >>
  /\ backgroundAudio # null

\* C22 (SpecPublish): when transport encoding of the artifact fails (the
\* artifact cannot be read, or its payload is empty), the attempt is aborted
\* before any network call: it never reaches the fetch, it ends in the
\* workflow with the in-flight flag cleared, and the Publish Result is
\* success = false with a message.
C22_EncodingFailureAborts ==
  /\ [][\A k \in DOMAIN uploads : \A readable \in BOOLEAN :
          (/\ uploads[k].pc = "encoding"
           /\ ~readable \/ uploads[k].blob = << >>
           /\ encodeSettled(k, readable)) =>
            /\ uploads'[k] = Idle
            /\ ~isUploading'
            /\ uploadResult' # null
            /\ ~uploadResult'[1].success
            /\ uploadResult'[1].message # << >>
            /\ uploadResult'[1].url = null]_vars
  /\ [](\A k \in DOMAIN uploads : Dispatched(k) => uploads[k].blob # << >>)

\* C22 witness: an attempt on an empty artifact has ended with the encoder's
\* message and nothing in flight
C22_Witness ==
  /\ videoBlob = Some(<< >>)
  /\ uploadResult = Failure(<< "Failed to encode video payload." >>)
  /\ ~isUploading
  /\ \A k \in DOMAIN uploads : ~InFlight(k)

\* C23 (SpecPublish): submitting a publish when no artifact is present fails
\* fast with the user-facing message: the in-flight flag, the retained
\* Publish Result, the form and the artifact state are unchanged, and no
\* attempt starts, so neither the encoder nor the upload service is invoked.
C23_NoArtifactFailsFast ==
  [][(videoBlob = null /\ submitYoutubeUpload) =>
       /\ notice'.alert = "Generate a video first."
       /\ UNCHANGED << isUploading, uploadResult, youtubeForm, videoUrl, videoBlob, uploads >>]_vars

\* C23 witness: the message was shown with no artifact present, and the
\* result of an earlier attempt is still retained
C23_Witness ==
  /\ notice.alert = "Generate a video first."
  /\ videoBlob = null
  /\ uploadResult # null
  /\ \A k \in DOMAIN uploads : ~InFlight(k)

\* C24 (Spec): in every reachable state the playable reference and the
\* artifact are present together or absent together, across any interleaving
\* of render starts, render completions and render failures.
C24_UrlIffBlob == (videoUrl = null) <=> (videoBlob = null)

\* C24 witness: a render has completed after an earlier one failed, and both
\* the reference and the artifact are present
C24_Witness ==
  /\ videoUrl # null
  /\ videoBlob # null
  /\ notice.error = "RenderFailed"
  /\ engine = "Ready"

\* C25 (SpecRegenerate): regenerateScenes replaces the scene store with a
\* freshly seeded sequence and resets the whole publish form to its initial
\* value for the topic, so clientId, clientSecret and refreshToken are empty
\* and canPublish is false immediately afterwards, while videoUrl, videoBlob,
\* the in-flight flag and the retained Publish Result are unchanged.
C25_RegenerateFrame ==
  [][(\E draws \in SeedDraws : regenerateScenes(draws)) =>
       /\ SeededFrom(scenes', topic)
       /\ \A i \in 1..Len(scenes') : scenes'[i].id \notin AllocatedIds
       /\ youtubeForm' =
            [ title         |-> topic,
              description   |-> defaultDescription(topic),
              tags          |-> << << "automation" >>, << "youtube" >>, << "ai workflow" >> >>,
              privacyStatus |-> << "private" >>,
              clientId      |-> << >>,
              clientSecret  |-> << >>,
              refreshToken  |-> << >>,
              status        |-> << >> ]
       /\ ~isYoutubeFormValid(youtubeForm', videoBlob' # null)
       /\ UNCHANGED << videoUrl, videoBlob, isUploading, uploadResult >>]_vars

\* C25 witness: the store was regenerated while an artifact and a Publish
\* Result were retained, and the form is back to its initial value
C25_Witness ==
  /\ nextId > NumSeedScenes + 1
  /\ scenes # << >> /\ scenes[1].id > NumSeedScenes
  /\ videoBlob # null
  /\ uploadResult # null
  /\ youtubeForm = initialYoutubeForm(topic)

\* C26 (SpecRoute): the upload service, with its authorization exchange, is
\* invoked only after both the required-field validation and the size check
\* have passed; a request that fails either check is answered 400 without
\* reaching the service, whatever the service would have done.
C26_ServiceAfterChecks ==
  served # null =>
    /\ served[1].invoked =>
         (HasAllRequired(served[1].request) /\ ~Oversize(served[1].request))
    /\ ~served[1].invoked =>
         /\ served[1].response.status = 400
         /\ served[1].response.body.error # Some(<< "quota exceeded" >>)
         /\ served[1].response.body.error # Some(<< "Unknown error occurred." >>)

\* C26 witness: an oversize request with every required member was answered
\* without reaching a service that would have raised an error
C26_Witness ==
  /\ served # null
  /\ Oversize(served[1].request)
  /\ served[1].service.kind = "error"
  /\ ~served[1].invoked
  /\ served[1].response.body.error = Some(SizeLimitMessage)

====
